---- MODULE Spec2Model ----
(***************************************************************************)
(* Model of the STEP exchange-format encoder (src/step_generator.py) and   *)
(* of the loading entry point (src/advanced_step_generator.py).            *)
(*                                                                         *)
(* Numbers.  Coordinates are integers.  A quotient computed with "/" is    *)
(* kept exactly, as a reduced fraction [n, d].  math.sqrt is exact on the  *)
(* perfect squares, and the segment pool holds only segments of integer    *)
(* length, so no rounding is involved in any value the model computes.     *)
(*                                                                         *)
(* Text.  An entity line "#<id> = <TYPE>(<attributes>);" is kept as the    *)
(* record of the values the f-string interpolates: id, type, and the       *)
(* attribute list split into coordinates, direction ratios, references     *)
(* (the "#<n>" items) and plain numbers.                                   *)
(***************************************************************************)
EXTENDS Integers, Sequences, FiniteSets, TLC

\* ---------------------------------------------------------------- bounds
MaxPoints == 2
MaxLines == 5

\* ------------------------------------------------------ program constants
SurfaceMinLines == 3
SurfaceMaxLines == 4
SurfaceMinPointIds == 4

VARIABLES
    b1,              \* the B1Entity argument of the current / last generate_step_file call
    entity_counter,  \* STEPGenerator.entity_counter
    entities,        \* STEPGenerator.entities
    pc,              \* position inside generate_step_file ("idle" between calls)
    i,               \* loop index of the running for-loop (1-based)
    point_ids,       \* local of generate_step_file
    line_ids,        \* local of generate_step_file
    surface_ids,     \* local of generate_step_file
    solid_id,        \* local of generate_step_file (0 models None)
    bbox,            \* result of the last get_bounding_box call
    written,         \* lines the last _write_step_file call wrote to its sink
    outcome,         \* how the most recently finished call ended
    mpc,             \* position inside advanced_step_generator.main
    input,           \* the file named by sys.argv[1]
    loaded           \* b1 of main: the loader's result

encvars == <<b1, entity_counter, entities, pc, i, point_ids, line_ids,
             surface_ids, solid_id, bbox, written, outcome>>
mainvars == <<mpc, input, loaded>>
vars == <<b1, entity_counter, entities, pc, i, point_ids, line_ids,
          surface_ids, solid_id, bbox, written, outcome, mpc, input, loaded>>

\* ------------------------------------------------------------ geometry
Point3D(x, y, z) == [x |-> x, y |-> y, z |-> z]

Line3D(start_point, end_point) == [start |-> start_point, end |-> end_point]

Sqrt(n) == CHOOSE r \in 0..n : r * r = n

Line3D_length(line) ==
    LET dx == line.end.x - line.start.x
        dy == line.end.y - line.start.y
        dz == line.end.z - line.start.z
    IN  Sqrt(dx*dx + dy*dy + dz*dz)

B1Entity == [points |-> <<>>, lines |-> <<>>, name |-> "B1"]

add_point(b, point) == [b EXCEPT !.points = Append(@, point)]

add_line(b, line) == [b EXCEPT !.lines = Append(@, line)]

Min(S) == CHOOSE m \in S : \A v \in S : m <= v

Max(S) == CHOOSE m \in S : \A v \in S : m >= v

Xs(b) == {b.points[k].x : k \in DOMAIN b.points}
Ys(b) == {b.points[k].y : k \in DOMAIN b.points}
Zs(b) == {b.points[k].z : k \in DOMAIN b.points}

\* mutant: max_z taken over the y coordinates
get_bounding_box_max_z_of_y(b) ==
    IF b.points = <<>>
    THEN <<Point3D(0, 0, 0), Point3D(0, 0, 0)>>
    ELSE <<Point3D(Min(Xs(b)), Min(Ys(b)), Min(Zs(b))),
           Point3D(Max(Xs(b)), Max(Ys(b)), Max(Ys(b)))>>

get_bounding_box(b) ==
    IF b.points = <<>>
    THEN <<Point3D(0, 0, 0), Point3D(0, 0, 0)>>
    ELSE <<Point3D(Min(Xs(b)), Min(Ys(b)), Min(Zs(b))),
           Point3D(Max(Xs(b)), Max(Ys(b)), Max(Zs(b)))>>

\* ------------------------------------------------------------- numbers
Abs(a) == IF a < 0 THEN -a ELSE a

RECURSIVE Gcd(_, _)
Gcd(a, b) == IF b = 0 THEN a ELSE Gcd(b, a % b)

\* a / b for b > 0, as a reduced fraction
Ratio(a, b) ==
    LET g == Gcd(Abs(a), b) IN [n |-> a \div g, d |-> b \div g]

\* ------------------------------------------------------------- encoder
\* The encoder's two fields as one value, so that the helpers below can be
\* chained the way the methods are.
Gen(counter, ents) == [entity_counter |-> counter, entities |-> ents]

STEPGenerator_init == Gen(1, <<>>)

\* mutant: the counter is read but not advanced
next_id_no_increment(g) == [id |-> g.entity_counter, g |-> g]

\* returns the id and the encoder after the increment
next_id(g) ==
    [id |-> g.entity_counter,
     g  |-> [g EXCEPT !.entity_counter = @ + 1]]

NoAttrs == [coords |-> <<>>, dir |-> <<>>, refs |-> <<>>, nums |-> <<>>]

add_entity(g, entity_type, attributes) ==
    LET r == next_id(g)
        text == [id |-> r.id, type |-> entity_type, label |-> "",
                 coords |-> attributes.coords, dir |-> attributes.dir,
                 refs |-> attributes.refs, nums |-> attributes.nums]
    IN  [id |-> r.id, g |-> [r.g EXCEPT !.entities = Append(@, text)]]

cartesian_point(g, point) ==
    add_entity(g, "CARTESIAN_POINT",
               [NoAttrs EXCEPT !.coords = <<point.x, point.y, point.z>>])

direction(g, dx, dy, dz) ==
    add_entity(g, "DIRECTION", [NoAttrs EXCEPT !.dir = <<dx, dy, dz>>])

\* mutant: the VECTOR names the id it is about to get instead of its direction's
vector_self_reference(g, direction_id, magnitude) ==
    add_entity(g, "VECTOR",
               [NoAttrs EXCEPT !.refs = <<g.entity_counter>>, !.nums = <<magnitude>>])

vector(g, direction_id, magnitude) ==
    add_entity(g, "VECTOR",
               [NoAttrs EXCEPT !.refs = <<direction_id>>, !.nums = <<magnitude>>])

\* mutant: the two references in the other order
line_entity_swapped(g, start_point_id, vector_id) ==
    add_entity(g, "LINE", [NoAttrs EXCEPT !.refs = <<vector_id, start_point_id>>])

line_entity(g, start_point_id, vector_id) ==
    add_entity(g, "LINE", [NoAttrs EXCEPT !.refs = <<start_point_id, vector_id>>])

\* body of "for point in b1.points": one iteration
point_step(g, point) == cartesian_point(g, point)

\* mutant: the length is tested before the start point is emitted
line_step_skips_degenerate(g, line) ==
    LET s == cartesian_point(g, line.start)
        dx == line.end.x - line.start.x
        dy == line.end.y - line.start.y
        dz == line.end.z - line.start.z
        magnitude == Line3D_length(line)
    IN  IF magnitude > 0
        THEN LET d == direction(s.g, Ratio(dx, magnitude), Ratio(dy, magnitude),
                                Ratio(dz, magnitude))
                 v == vector(d.g, d.id, magnitude)
             IN  line_entity(v.g, s.id, v.id)
        ELSE [id |-> 0, g |-> g]

\* body of "for line in b1.lines": one iteration; id is the LINE id, 0 if none
line_step(g, line) ==
    LET s == cartesian_point(g, line.start)
        dx == line.end.x - line.start.x
        dy == line.end.y - line.start.y
        dz == line.end.z - line.start.z
        magnitude == Line3D_length(line)
    IN  IF magnitude > 0
        THEN LET d == direction(s.g, Ratio(dx, magnitude), Ratio(dy, magnitude),
                                Ratio(dz, magnitude))
                 v == vector(d.g, d.id, magnitude)
             IN  line_entity(v.g, s.id, v.id)
        ELSE [id |-> 0, g |-> s.g]

SubSeqTo(s, n) == SubSeq(s, 1, IF Len(s) < n THEN Len(s) ELSE n)

\* "for line in b1.lines[:4]": start and end point of each, ids collected
RECURSIVE surface_points(_, _, _)
surface_points(g, ls, ids) ==
    IF ls = <<>>
    THEN [ids |-> ids, g |-> g]
    ELSE LET s == cartesian_point(g, Head(ls).start)
             e == cartesian_point(s.g, Head(ls).end)
         IN  surface_points(e.g, Tail(ls), ids \o <<s.id, e.id>>)

\* mutant: the three lines the comment speaks of
surface_lines_first_three(b) == SubSeqTo(b.lines, SurfaceMinLines)

\* b1.lines[:4]
surface_lines(b) == SubSeqTo(b.lines, SurfaceMaxLines)

\* the body of "if len(b1.lines) >= 3"
plane_from_lines(g, b) ==
    LET p == surface_points(g, surface_lines(b), <<>>)
    IN  IF Len(p.ids) >= SurfaceMinPointIds
        THEN LET origin_id == p.ids[1]
                 n == direction(p.g, Ratio(0, 1), Ratio(0, 1), Ratio(1, 1))
                 pl == add_entity(n.g, "PLANE",
                                  [NoAttrs EXCEPT !.refs = <<origin_id, n.id>>])
             IN  [ids |-> <<pl.id>>, g |-> pl.g]
        ELSE [ids |-> <<>>, g |-> p.g]

\* mutant: more than 3 lines are asked for
generate_surfaces_above_three(g, b) ==
    IF Len(b.lines) > SurfaceMinLines
    THEN plane_from_lines(g, b)
    ELSE [ids |-> <<>>, g |-> g]

generate_surfaces_from_lines(g, b) ==
    IF Len(b.lines) >= SurfaceMinLines
    THEN plane_from_lines(g, b)
    ELSE [ids |-> <<>>, g |-> g]

\* mutant: the bottom face in zigzag order
box_corners_zigzag(min_pt, max_pt) ==
    << Point3D(min_pt.x, min_pt.y, min_pt.z),
       Point3D(max_pt.x, min_pt.y, min_pt.z),
       Point3D(min_pt.x, max_pt.y, min_pt.z),
       Point3D(max_pt.x, max_pt.y, min_pt.z),
       Point3D(min_pt.x, min_pt.y, max_pt.z),
       Point3D(max_pt.x, min_pt.y, max_pt.z),
       Point3D(max_pt.x, max_pt.y, max_pt.z),
       Point3D(min_pt.x, max_pt.y, max_pt.z) >>

box_corners(min_pt, max_pt) ==
    << Point3D(min_pt.x, min_pt.y, min_pt.z),
       Point3D(max_pt.x, min_pt.y, min_pt.z),
       Point3D(max_pt.x, max_pt.y, min_pt.z),
       Point3D(min_pt.x, max_pt.y, min_pt.z),
       Point3D(min_pt.x, min_pt.y, max_pt.z),
       Point3D(max_pt.x, min_pt.y, max_pt.z),
       Point3D(max_pt.x, max_pt.y, max_pt.z),
       Point3D(min_pt.x, max_pt.y, max_pt.z) >>

RECURSIVE corner_points(_, _, _)
corner_points(g, pts, ids) ==
    IF pts = <<>>
    THEN [ids |-> ids, g |-> g]
    ELSE LET c == cartesian_point(g, Head(pts))
         IN  corner_points(c.g, Tail(pts), Append(ids, c.id))

\* id 0 models the None the method returns without a surface
generate_solid_from_surfaces(g, sids, b) ==
    IF sids = <<>>
    THEN [id |-> 0, g |-> g, box |-> <<>>]
    ELSE LET box == get_bounding_box(b)
             min_pt == box[1]
             max_pt == box[2]
             c == corner_points(g, box_corners(min_pt, max_pt), <<>>)
             s == add_entity(c.g, "BLOCK",
                             [NoAttrs EXCEPT !.refs = <<c.ids[1]>>,
                                             !.nums = <<max_pt.x - min_pt.x,
                                                        max_pt.y - min_pt.y,
                                                        max_pt.z - min_pt.z>>])
         IN  [id |-> s.id, g |-> s.g, box |-> <<box>>]

HeaderLines ==
    << "ISO-10303-21;", "HEADER;", "FILE_DESCRIPTION", "FILE_NAME",
       "FILE_SCHEMA", "ENDSEC;", "DATA;" >>

TrailerLines == << "ENDSEC;", "END-ISO-10303-21;" >>

\* what a successful _write_step_file leaves in the sink
step_file_text(ents) ==
    [header |-> HeaderLines, data |-> ents, trailer |-> TrailerLines]

NothingWritten == [header |-> <<>>, data |-> <<>>, trailer |-> <<>>]

\* ---------------------------------------------------------- input domain
\* Points and segments the callers draw from.  Every segment has an integer
\* length (10 or 0); the degenerate one lies outside the points' range.
PointPool == { Point3D(0, 0, 0), Point3D(10, -5, 7) }

LinePool == { Line3D(Point3D(0, 0, 0), Point3D(10, 0, 0)),
              Line3D(Point3D(20, 20, 20), Point3D(20, 20, 20)) }

SeqsUpTo(S, n) == UNION { [1..k -> S] : k \in 0..n }

GeometrySets ==
    { [points |-> ps, lines |-> ls, name |-> "B1"] :
        ps \in SeqsUpTo(PointPool, MaxPoints), ls \in SeqsUpTo(LinePool, MaxLines) }

NoJson == [syntax_ok |-> FALSE, top |-> "object", has_points |-> FALSE,
           points |-> <<>>, has_lines |-> FALSE, lines |-> <<>>]

\* no file is named on the command line (or, for the encoder alone, no main runs)
NoInput == [ext |-> "none", readable |-> FALSE, json |-> NoJson, rows |-> <<>>]

NoneLoaded == [ok |-> FALSE, b1 |-> B1Entity]

\* ------------------------------------------------------- encoder actions
Init ==
    /\ b1 = B1Entity
    /\ entity_counter = STEPGenerator_init.entity_counter
    /\ entities = STEPGenerator_init.entities
    /\ pc = "idle"
    /\ i = 1
    /\ point_ids = <<>>
    /\ line_ids = <<>>
    /\ surface_ids = <<>>
    /\ solid_id = 0
    /\ bbox = <<>>
    /\ written = NothingWritten
    /\ outcome = "none"
    /\ mpc = "library"
    /\ input = NoInput
    /\ loaded = NoneLoaded

\* generate_step_file, entry: the reset and the locals
\* mutant: the list is cleared, the counter is not
reset_keeps_counter(g) == Gen(g.entity_counter, <<>>)

\* "self.entity_counter = 1; self.entities = []"
reset_for_new_generation(g) == STEPGenerator_init

generate_step_file(G) ==
    /\ pc = "idle"
    /\ b1' = G
    /\ entity_counter' = reset_for_new_generation(Gen(entity_counter, entities)).entity_counter
    /\ entities' = reset_for_new_generation(Gen(entity_counter, entities)).entities
    /\ point_ids' = <<>>
    /\ line_ids' = <<>>
    /\ surface_ids' = <<>>
    /\ solid_id' = 0
    /\ bbox' = <<>>
    /\ written' = NothingWritten
    /\ i' = 1
    /\ pc' = "points"
    /\ UNCHANGED outcome

Call ==
    /\ mpc = "library"
    /\ \E G \in GeometrySets : generate_step_file(G)
    /\ UNCHANGED mainvars

\* "for point in b1.points": one iteration, or the loop's exit
ProcessPoints ==
    /\ pc = "points"
    /\ IF i <= Len(b1.points)
       THEN LET r == point_step(Gen(entity_counter, entities), b1.points[i])
            IN  /\ entity_counter' = r.g.entity_counter
                /\ entities' = r.g.entities
                /\ point_ids' = Append(point_ids, r.id)
                /\ i' = i + 1
                /\ pc' = pc
       ELSE /\ i' = 1
            /\ pc' = "lines"
            /\ UNCHANGED <<entity_counter, entities, point_ids>>
    /\ UNCHANGED <<b1, line_ids, surface_ids, solid_id, bbox, written, outcome>>
    /\ UNCHANGED mainvars

\* "for line in b1.lines": one iteration, or the loop's exit
ProcessLines ==
    /\ pc = "lines"
    /\ IF i <= Len(b1.lines)
       THEN LET r == line_step(Gen(entity_counter, entities), b1.lines[i])
            IN  /\ entity_counter' = r.g.entity_counter
                /\ entities' = r.g.entities
                /\ line_ids' = IF r.id # 0 THEN Append(line_ids, r.id) ELSE line_ids
                /\ i' = i + 1
                /\ pc' = pc
       ELSE /\ i' = 1
            /\ pc' = "surfaces"
            /\ UNCHANGED <<entity_counter, entities, line_ids>>
    /\ UNCHANGED <<b1, point_ids, surface_ids, solid_id, bbox, written, outcome>>
    /\ UNCHANGED mainvars

GenerateSurfaces ==
    /\ pc = "surfaces"
    /\ LET r == generate_surfaces_from_lines(Gen(entity_counter, entities), b1)
       IN  /\ entity_counter' = r.g.entity_counter
           /\ entities' = r.g.entities
           /\ surface_ids' = r.ids
    /\ pc' = "solid"
    /\ UNCHANGED <<b1, i, point_ids, line_ids, solid_id, bbox, written, outcome>>
    /\ UNCHANGED mainvars

GenerateSolid ==
    /\ pc = "solid"
    /\ LET r == generate_solid_from_surfaces(Gen(entity_counter, entities), surface_ids, b1)
       IN  /\ entity_counter' = r.g.entity_counter
           /\ entities' = r.g.entities
           /\ solid_id' = r.id
           /\ bbox' = IF r.box = <<>> THEN bbox ELSE r.box[1]
    /\ pc' = "write"
    /\ UNCHANGED <<b1, i, point_ids, line_ids, surface_ids, written, outcome>>
    /\ UNCHANGED mainvars

\* _write_step_file with a sink that opens: header, every entity, trailer
WriteStepFile ==
    /\ pc = "write"
    /\ written' = step_file_text(entities)
    /\ outcome' = "ok"
    /\ pc' = "idle"
    /\ UNCHANGED <<b1, entity_counter, entities, i, point_ids, line_ids,
                   surface_ids, solid_id, bbox>>
    /\ UNCHANGED mainvars

\* _write_step_file with a sink that cannot be opened: open() raises, the
\* exception leaves generate_step_file, nothing is written
WriteStepFileFails ==
    /\ pc = "write"
    /\ outcome' = "WriteError"
    /\ pc' = "idle"
    /\ UNCHANGED <<b1, entity_counter, entities, i, point_ids, line_ids,
                   surface_ids, solid_id, bbox, written>>
    /\ UNCHANGED mainvars

Next ==
    \/ Call
    \/ ProcessPoints
    \/ ProcessLines
    \/ GenerateSurfaces
    \/ GenerateSolid
    \/ WriteStepFile
    \/ WriteStepFileFails

Spec == Init /\ [][Next]_vars

\* ------------------------------------------------------------- loaders
\* A file as the loaders see it.  json: whether json.load accepts the text,
\* the kind of its top-level value, and (for an object) the 'points' and
\* 'lines' members; an entry is a record holding the keys it has.  rows: the
\* stripped lines of a CSV file, each with its kind and its comma-separated
\* fields; a field is a number text (num) or not.
JsonFile(readable, doc) ==
    [ext |-> "json", readable |-> readable, json |-> doc, rows |-> <<>>]

CsvFile(readable, rows) ==
    [ext |-> "csv", readable |-> readable, json |-> NoJson, rows |-> rows]

OtherFile == [ext |-> "txt", readable |-> TRUE, json |-> NoJson, rows |-> <<>>]

Loaded(b) == [ok |-> TRUE, b1 |-> b]

CoordKeys == {"x", "y", "z"}

\* Point3D(d['x'], d['y'], d['z']): a KeyError when a key is missing
json_point(d) ==
    IF CoordKeys \subseteq DOMAIN d
    THEN [ok |-> TRUE, p |-> Point3D(d.x, d.y, d.z)]
    ELSE [ok |-> FALSE, p |-> Point3D(0, 0, 0)]

RECURSIVE json_points(_, _)
json_points(b, ds) ==
    IF ds = <<>>
    THEN Loaded(b)
    ELSE LET r == json_point(Head(ds))
         IN  IF r.ok THEN json_points(add_point(b, r.p), Tail(ds)) ELSE NoneLoaded

RECURSIVE json_lines(_, _)
json_lines(b, ds) ==
    IF ds = <<>>
    THEN Loaded(b)
    ELSE LET d == Head(ds)
             s == IF "start" \in DOMAIN d THEN json_point(d.start)
                  ELSE [ok |-> FALSE, p |-> Point3D(0, 0, 0)]
             e == IF "end" \in DOMAIN d THEN json_point(d.end)
                  ELSE [ok |-> FALSE, p |-> Point3D(0, 0, 0)]
         IN  IF s.ok /\ e.ok
             THEN json_lines(add_line(b, Line3D(s.p, e.p)), Tail(ds))
             ELSE NoneLoaded

\* B1Loader.from_json: every exception of the body ends in "return None"
from_json(f) ==
    IF ~f.readable \/ ~f.json.syntax_ok
    THEN NoneLoaded
    ELSE IF f.json.top = "number"
    THEN NoneLoaded                       \* "'points' in data" raises TypeError
    ELSE IF f.json.top = "array"
    THEN Loaded(B1Entity)                 \* both membership tests are False
    ELSE LET p == IF f.json.has_points
                  THEN json_points(B1Entity, f.json.points)
                  ELSE Loaded(B1Entity)
         IN  IF ~p.ok THEN NoneLoaded
             ELSE IF f.json.has_lines
             THEN json_lines(p.b1, f.json.lines)
             ELSE p

\* float(parts[k]) for k in 1..n: all succeed
floats_ok(parts, n) == \A k \in 1..n : parts[k].num

RECURSIVE csv_rows(_, _, _)
csv_rows(b, rows, current_section) ==
    IF rows = <<>>
    THEN Loaded(b)
    ELSE LET row == Head(rows)
             parts == row.fields
         IN  IF row.kind \in {"blank", "comment"}
             THEN csv_rows(b, Tail(rows), current_section)
             ELSE IF row.kind = "POINTS"
             THEN csv_rows(b, Tail(rows), "points")
             ELSE IF row.kind = "LINES"
             THEN csv_rows(b, Tail(rows), "lines")
             ELSE IF current_section = "points"
             THEN IF Len(parts) >= 3
                  THEN IF floats_ok(parts, 3)
                       THEN csv_rows(add_point(b, Point3D(parts[1].v, parts[2].v, parts[3].v)),
                                     Tail(rows), current_section)
                       ELSE NoneLoaded
                  ELSE csv_rows(b, Tail(rows), current_section)
             ELSE IF current_section = "lines"
             THEN IF Len(parts) >= 6
                  THEN IF floats_ok(parts, 6)
                       THEN csv_rows(add_line(b, Line3D(
                                         Point3D(parts[1].v, parts[2].v, parts[3].v),
                                         Point3D(parts[4].v, parts[5].v, parts[6].v))),
                                     Tail(rows), current_section)
                       ELSE NoneLoaded
                  ELSE csv_rows(b, Tail(rows), current_section)
             ELSE csv_rows(b, Tail(rows), current_section)

\* mutant: the except branch hands back an empty entity
from_csv_empty_on_error(f) ==
    LET r == IF ~f.readable THEN NoneLoaded ELSE csv_rows(B1Entity, f.rows, "none")
    IN  IF r.ok THEN r ELSE Loaded(B1Entity)

\* B1Loader.from_csv: every exception of the body ends in "return None"
from_csv(f) ==
    IF ~f.readable THEN NoneLoaded ELSE csv_rows(B1Entity, f.rows, "none")

\* ---------------------------------------------------------- input files
Obj(has_points, points, has_lines, lines) ==
    [syntax_ok |-> TRUE, top |-> "object", has_points |-> has_points,
     points |-> points, has_lines |-> has_lines, lines |-> lines]

JP0 == [x |-> 0, y |-> 0, z |-> 0]
JP1 == [x |-> 10, y |-> 0, z |-> 0]
JPnoZ == [x |-> 10, y |-> 0]
JL0 == [start |-> JP0, end |-> JP1]
JLdeg == [start |-> JP1, end |-> JP1]

Num(v) == [num |-> TRUE, v |-> v]
Word == [num |-> FALSE, v |-> 0]
Data(fields) == [kind |-> "data", fields |-> fields]
Mark(kind) == [kind |-> kind, fields |-> <<>>]
RowP0 == Data(<<Num(0), Num(0), Num(0)>>)
RowL0 == Data(<<Num(0), Num(0), Num(0), Num(10), Num(0), Num(0)>>)
RowLdeg == Data(<<Num(10), Num(0), Num(0), Num(10), Num(0), Num(0)>>)

JsonInputs ==
    { JsonFile(FALSE, Obj(TRUE, <<JP0>>, TRUE, <<JL0>>)),
      JsonFile(TRUE, [NoJson EXCEPT !.syntax_ok = FALSE]),
      JsonFile(TRUE, [NoJson EXCEPT !.syntax_ok = TRUE, !.top = "number"]),
      JsonFile(TRUE, [NoJson EXCEPT !.syntax_ok = TRUE, !.top = "array"]),
      JsonFile(TRUE, Obj(FALSE, <<>>, FALSE, <<>>)),
      JsonFile(TRUE, Obj(TRUE, <<JP0>>, TRUE, <<JL0>>)),
      JsonFile(TRUE, Obj(TRUE, <<JP0, JPnoZ>>, TRUE, <<JL0>>)),
      JsonFile(TRUE, Obj(FALSE, <<>>, TRUE, <<JL0, JLdeg, JL0>>)),
      JsonFile(TRUE, Obj(TRUE, <<JP1>>, TRUE, <<JL0, [start |-> JP0]>>)),
      JsonFile(TRUE, Obj(TRUE, <<JP1>>, TRUE, <<[start |-> JPnoZ, end |-> JP1]>>)) }

CsvInputs ==
    { CsvFile(FALSE, <<Mark("POINTS"), RowP0>>),
      CsvFile(TRUE, <<>>),
      CsvFile(TRUE, <<Mark("comment"), Mark("POINTS"), RowP0, Mark("blank"),
                      Mark("LINES"), RowL0>>),
      CsvFile(TRUE, <<Mark("POINTS"), RowP0, Data(<<Num(5), Num(5)>>)>>),
      CsvFile(TRUE, <<Mark("POINTS"), Data(<<Num(5), Word, Num(5)>>)>>),
      CsvFile(TRUE, <<Mark("POINTS"), Data(<<Num(5), Num(5), Num(5), Word>>)>>),
      CsvFile(TRUE, <<Mark("LINES"), RowL0, Data(<<Num(0), Num(0), Num(0), Num(1), Num(1)>>)>>),
      CsvFile(TRUE, <<Mark("LINES"), Data(<<Num(0), Num(0), Num(0), Num(1), Num(1), Word>>)>>),
      CsvFile(TRUE, <<RowP0, Data(<<Word>>), Mark("LINES"), RowL0, RowLdeg, RowL0, RowL0>>) }

InputFiles == JsonInputs \cup CsvInputs \cup {OtherFile, NoInput}

\* create_sample_b1_json: the file main loads when no input file is named
SampleCube(n) ==
    <<[x |-> 0, y |-> 0, z |-> 0],   [x |-> 10, y |-> 0, z |-> 0],
      [x |-> 10, y |-> 10, z |-> 0], [x |-> 0, y |-> 10, z |-> 0],
      [x |-> 0, y |-> 0, z |-> 10],  [x |-> 10, y |-> 0, z |-> 10],
      [x |-> 10, y |-> 10, z |-> 10], [x |-> 0, y |-> 10, z |-> 10]>>[n]

SampleEdge(a, b) == [start |-> SampleCube(a), end |-> SampleCube(b)]

SampleJson ==
    JsonFile(TRUE,
        Obj(TRUE, [n \in 1..8 |-> SampleCube(n)],
            TRUE, << SampleEdge(1, 2), SampleEdge(2, 3), SampleEdge(3, 4), SampleEdge(4, 1),
                     SampleEdge(1, 5), SampleEdge(2, 6), SampleEdge(3, 7), SampleEdge(4, 8),
                     SampleEdge(5, 6), SampleEdge(6, 7), SampleEdge(7, 8), SampleEdge(8, 5) >>))

\* ------------------------------------------------------------------ main
\* main, lines 165-194: the loader chosen by the file's extension
main_load(f) ==
    IF f.ext = "none" THEN from_json(SampleJson)
    ELSE IF f.ext = "json" THEN from_json(f)
    ELSE IF f.ext = "csv" THEN from_csv(f)
    ELSE NoneLoaded

\* main's "if b1 is None: ... return" (and the return on an unsupported format)
main_after_load(f, r) ==
    IF f.ext \notin {"none", "json", "csv"} THEN "exit"
    ELSE IF ~r.ok THEN "exit"
    ELSE "summary"

InitMain ==
    /\ b1 = B1Entity
    /\ entity_counter = STEPGenerator_init.entity_counter
    /\ entities = STEPGenerator_init.entities
    /\ pc = "idle"
    /\ i = 1
    /\ point_ids = <<>>
    /\ line_ids = <<>>
    /\ surface_ids = <<>>
    /\ solid_id = 0
    /\ bbox = <<>>
    /\ written = NothingWritten
    /\ outcome = "none"
    /\ mpc = "start"
    /\ input \in InputFiles
    /\ loaded = NoneLoaded

MainLoad ==
    /\ mpc = "start"
    /\ loaded' = main_load(input)
    /\ mpc' = main_after_load(input, loaded')
    /\ UNCHANGED input
    /\ UNCHANGED encvars

\* lines 196-206: the summary, with the coordinate range when there are points
MainSummary ==
    /\ mpc = "summary"
    /\ bbox' = IF loaded.b1.points # <<>> THEN get_bounding_box(loaded.b1) ELSE bbox
    /\ mpc' = "generate"
    /\ UNCHANGED <<b1, entity_counter, entities, pc, i, point_ids, line_ids,
                   surface_ids, solid_id, written, outcome>>
    /\ UNCHANGED <<input, loaded>>

\* lines 209-213: a new STEPGenerator, and the call
MainGenerate ==
    /\ mpc = "generate"
    /\ generate_step_file(loaded.b1)
    /\ mpc' = "generating"
    /\ UNCHANGED <<input, loaded>>

\* the call returned (lines 215-223) or raised: main ends
MainFinish ==
    /\ mpc = "generating"
    /\ pc = "idle"
    /\ mpc' = "exit"
    /\ UNCHANGED <<input, loaded>>
    /\ UNCHANGED encvars

NextMain ==
    \/ MainLoad
    \/ MainSummary
    \/ MainGenerate
    \/ ProcessPoints
    \/ ProcessLines
    \/ GenerateSurfaces
    \/ GenerateSolid
    \/ WriteStepFile
    \/ WriteStepFileFails
    \/ MainFinish

SpecMain == InitMain /\ [][NextMain]_vars

\* ===================================================================
\* Properties
\* ===================================================================
\* every record of the running or finished pass is in place
Done == pc = "write" \/ (pc = "idle" /\ outcome # "none")

Count(type) == Cardinality({ k \in DOMAIN entities : entities[k].type = type })

NonDegenerate(b, n) ==
    Cardinality({ j \in 1..n : b.lines[j].start # b.lines[j].end })

\* records present once the points and the first n segments are processed
RecordsAfterLines(b, n) == Len(b.points) + n + 3 * NonDegenerate(b, n)

SurfaceLines(b) == IF Len(b.lines) < SurfaceMaxLines THEN Len(b.lines) ELSE SurfaceMaxLines

Coords(p) == <<p.x, p.y, p.z>>

IsPointAt(e, p) == e.type = "CARTESIAN_POINT" /\ e.coords = Coords(p)

ExampleSet ==
    [points |-> <<Point3D(0, 0, 0)>>,
     lines |-> <<Line3D(Point3D(0, 0, 0), Point3D(10, 0, 0))>>,
     name |-> "B1"]

\* C1: at every step of a pass and after it, the n-th record created has
\* id n (so the ids are 1..K, no gap, no reuse), entity_counter is the number
\* of records plus 1, and what a write put in the DATA section is the record
\* list in creation order.
C1_IdsSequential ==
    /\ \A n \in DOMAIN entities : entities[n].id = n
    /\ entity_counter = Len(entities) + 1
    /\ written # NothingWritten =>
          /\ written.data = entities
          /\ \A n \in DOMAIN written.data : written.data[n].id = n

C1_Witness ==
    /\ pc = "idle"
    /\ outcome = "ok"
    /\ written.data = entities
    /\ Len(entities) >= 20
    /\ Len(b1.points) > 0

\* C2: every reference of a record is to a record created before it, with a
\* smaller id, and of the kind the referencing record needs: VECTOR -> a
\* DIRECTION; LINE -> a CARTESIAN_POINT and a VECTOR; PLANE -> a
\* CARTESIAN_POINT and a DIRECTION; BLOCK -> a CARTESIAN_POINT.
RefKinds(type) ==
    IF type = "VECTOR" THEN <<"DIRECTION">>
    ELSE IF type = "LINE" THEN <<"CARTESIAN_POINT", "VECTOR">>
    ELSE IF type = "PLANE" THEN <<"CARTESIAN_POINT", "DIRECTION">>
    ELSE IF type = "BLOCK" THEN <<"CARTESIAN_POINT">>
    ELSE <<>>

C2_NoForwardReference ==
    \A n \in DOMAIN entities :
        /\ Len(entities[n].refs) = Len(RefKinds(entities[n].type))
        /\ \A k \in DOMAIN entities[n].refs :
              LET r == entities[n].refs[k]
              IN  /\ r >= 1
                  /\ r < entities[n].id
                  /\ r < n
                  /\ entities[r].id = r
                  /\ entities[r].type = RefKinds(entities[n].type)[k]

C2_Witness ==
    /\ Done
    /\ Count("VECTOR") > 0
    /\ Count("LINE") > 0
    /\ Count("PLANE") > 0
    /\ Count("BLOCK") > 0

\* C3: a finished pass over a set with fewer than 3 segments holds no PLANE
\* and no BLOCK; with 3 or more segments it holds exactly one PLANE and
\* exactly one BLOCK, whatever the number of points and whether or not the
\* segments have zero length.  No pass ever holds more than one of either.
C3_PlaneAndBlockCount ==
    /\ Count("PLANE") <= 1
    /\ Count("BLOCK") <= 1
    /\ Done =>
          IF Len(b1.lines) < 3
          THEN Count("PLANE") = 0 /\ Count("BLOCK") = 0
          ELSE Count("PLANE") = 1 /\ Count("BLOCK") = 1

C3_Witness ==
    /\ Done
    /\ b1.points = <<>>
    /\ Len(b1.lines) = 3
    /\ \A j \in DOMAIN b1.lines : b1.lines[j].start = b1.lines[j].end
    /\ Count("PLANE") = 1
    /\ Count("BLOCK") = 1

\* What an encoder fresh from __init__ produces for set b: the methods applied
\* in the order of generate_step_file, starting from __init__'s fields.
RECURSIVE FreshPoints(_, _)
FreshPoints(g, ps) ==
    IF ps = <<>> THEN g ELSE FreshPoints(point_step(g, Head(ps)).g, Tail(ps))

RECURSIVE FreshLines(_, _)
FreshLines(g, ls) ==
    IF ls = <<>> THEN g ELSE FreshLines(line_step(g, Head(ls)).g, Tail(ls))

FreshRecords(b) ==
    LET g1 == FreshLines(FreshPoints(Gen(1, <<>>), b.points), b.lines)
        s == generate_surfaces_from_lines(g1, b)
    IN  generate_solid_from_surfaces(s.g, s.ids, b).g

\* C4: whatever calls came before on this encoder, failed ones included, a
\* pass over set G ends with exactly the record list (and counter) of a
\* freshly constructed encoder's pass over G; and a pass starts from the
\* constructor's state.
C4_NoStateAcrossCalls ==
    /\ Done =>
          /\ entities = FreshRecords(b1).entities
          /\ entity_counter = FreshRecords(b1).entity_counter
    /\ (pc = "points" /\ i = 1) => (entity_counter = 1 /\ entities = <<>>)

C4_Witness ==
    /\ pc = "write"
    /\ outcome = "WriteError"
    /\ Len(b1.lines) = 1
    /\ Len(entities) = 5

\* segments the pass has processed so far, and points likewise
LinesProcessed ==
    IF pc = "points" THEN 0 ELSE IF pc = "lines" THEN i - 1 ELSE Len(b1.lines)

PointsProcessed == IF pc = "points" THEN i - 1 ELSE Len(b1.points)

SurfaceRecords(b) ==
    IF Len(b.lines) >= 3 THEN 2 * SurfaceLines(b) + 2 ELSE 0

\* C5 as stated: a segment with start = end contributes exactly one
\* CARTESIAN_POINT record, and no DIRECTION, VECTOR or LINE record, to the
\* generated document.  Stated for the sets all of whose segments are
\* degenerate: the document's points are then the Points, one per segment, and
\* the 8 corners of the block if there is one.
C5_AsStated ==
    (Done /\ \A j \in DOMAIN b1.lines : b1.lines[j].start = b1.lines[j].end) =>
        /\ Count("CARTESIAN_POINT") = Len(b1.points) + Len(b1.lines) + 8 * Count("BLOCK")
        /\ Count("VECTOR") = 0
        /\ Count("LINE") = 0

\* C5, amended: in the segment loop a segment with start = end contributes
\* exactly one CARTESIAN_POINT record (its start) and no DIRECTION, VECTOR or
\* LINE record, and the loop goes on with the segments after it; in the
\* finished document the surface step has added two more CARTESIAN_POINT
\* records for each of the first min(S,4) segments when S >= 3, degenerate or
\* not.
C5_DegenerateSegment ==
    /\ pc = "lines" =>
          /\ Len(entities) = RecordsAfterLines(b1, i - 1)
          /\ Count("CARTESIAN_POINT") = Len(b1.points) + (i - 1)
          /\ Count("DIRECTION") = NonDegenerate(b1, i - 1)
          /\ Count("VECTOR") = NonDegenerate(b1, i - 1)
          /\ Count("LINE") = NonDegenerate(b1, i - 1)
    /\ \A j \in 1..LinesProcessed :
          b1.lines[j].start = b1.lines[j].end =>
              /\ IsPointAt(entities[RecordsAfterLines(b1, j - 1) + 1], b1.lines[j].start)
              /\ RecordsAfterLines(b1, j) = RecordsAfterLines(b1, j - 1) + 1
    /\ Done =>
          /\ Count("VECTOR") = NonDegenerate(b1, Len(b1.lines))
          /\ Count("LINE") = NonDegenerate(b1, Len(b1.lines))
          /\ Count("DIRECTION") = NonDegenerate(b1, Len(b1.lines)) + Count("PLANE")
          /\ Count("CARTESIAN_POINT") =
                Len(b1.points) + Len(b1.lines)
                + (IF Len(b1.lines) >= 3 THEN 2 * SurfaceLines(b1) ELSE 0)
                + 8 * Count("BLOCK")

C5_Witness ==
    /\ Done
    /\ Len(b1.lines) >= 3
    /\ b1.lines[1].start = b1.lines[1].end
    /\ b1.lines[2].start # b1.lines[2].end
    /\ Count("LINE") >= 1

\* C7: get_bounding_box returns (origin, origin) for an empty point sequence,
\* (P, P) for a single point P, and otherwise corners that bound every Point
\* in each coordinate and whose every coordinate is that of some Point (so
\* they are the minimum and maximum over the Points alone); the sequences the
\* pass walked are the sequences after the call.
C7_BoundingBox ==
    bbox # <<>> =>
        LET lo == bbox[1]
            hi == bbox[2]
            ps == b1.points
        IN  /\ ps = <<>> => bbox = <<Point3D(0, 0, 0), Point3D(0, 0, 0)>>
            /\ Len(ps) = 1 => bbox = <<ps[1], ps[1]>>
            /\ \A k \in DOMAIN ps :
                  /\ lo.x <= ps[k].x /\ ps[k].x <= hi.x
                  /\ lo.y <= ps[k].y /\ ps[k].y <= hi.y
                  /\ lo.z <= ps[k].z /\ ps[k].z <= hi.z
            /\ ps # <<>> =>
                  /\ \E k \in DOMAIN ps : ps[k].x = lo.x
                  /\ \E k \in DOMAIN ps : ps[k].y = lo.y
                  /\ \E k \in DOMAIN ps : ps[k].z = lo.z
                  /\ \E k \in DOMAIN ps : ps[k].x = hi.x
                  /\ \E k \in DOMAIN ps : ps[k].y = hi.y
                  /\ \E k \in DOMAIN ps : ps[k].z = hi.z
            /\ Len(point_ids) = Len(ps)

C7_Witness ==
    /\ bbox # <<>>
    /\ Len(b1.points) = 2
    /\ \A k \in DOMAIN b1.points : b1.points[k] # bbox[1] /\ b1.points[k] # bbox[2]
    /\ \E j \in DOMAIN b1.lines : b1.lines[j].start.x > bbox[2].x

\* C8: the i-th Point's record has id i; after the P point records every
\* segment of nonzero length has, at consecutive ids k..k+3 in sequence
\* order, a CARTESIAN_POINT for its start, a DIRECTION holding the unit
\* vector, a VECTOR referencing #(k+1) with the segment length, and a LINE
\* referencing #k and #(k+2); the set {(0,0,0)}, {((0,0,0),(10,0,0))} gives
\* exactly 5 records with vector #4 -> #3 and line #5 -> #2, #4.
SegmentRecordsAt(line, k) ==
    LET dx == line.end.x - line.start.x
        dy == line.end.y - line.start.y
        dz == line.end.z - line.start.z
        d == entities[k + 1].dir
        m == entities[k + 2].nums[1]
    IN  /\ IsPointAt(entities[k], line.start)
        /\ entities[k].id = k
        /\ entities[k + 1].type = "DIRECTION"
        /\ entities[k + 1].id = k + 1
        /\ entities[k + 2].type = "VECTOR"
        /\ entities[k + 2].id = k + 2
        /\ entities[k + 2].refs = <<k + 1>>
        /\ m > 0
        /\ m * m = dx*dx + dy*dy + dz*dz
        /\ \* d = (dx, dy, dz) / m
           /\ d[1].n * m = dx * d[1].d
           /\ d[2].n * m = dy * d[2].d
           /\ d[3].n * m = dz * d[3].d
        /\ entities[k + 3].type = "LINE"
        /\ entities[k + 3].id = k + 3
        /\ entities[k + 3].refs = <<k, k + 2>>

C8_SegmentRecords ==
    /\ \A k \in 1..PointsProcessed :
          /\ IsPointAt(entities[k], b1.points[k])
          /\ entities[k].id = k
          /\ point_ids[k] = k
    /\ \A j \in 1..LinesProcessed :
          b1.lines[j].start # b1.lines[j].end =>
              SegmentRecordsAt(b1.lines[j], RecordsAfterLines(b1, j - 1) + 1)
    /\ (Done /\ b1 = ExampleSet) =>
          /\ Len(entities) = 5
          /\ IsPointAt(entities[1], Point3D(0, 0, 0))
          /\ IsPointAt(entities[2], Point3D(0, 0, 0))
          /\ entities[3].type = "DIRECTION"
          /\ entities[3].dir = <<[n |-> 1, d |-> 1], [n |-> 0, d |-> 1], [n |-> 0, d |-> 1]>>
          /\ entities[4].type = "VECTOR"
          /\ entities[4].refs = <<3>>
          /\ entities[4].nums = <<10>>
          /\ entities[5].type = "LINE"
          /\ entities[5].refs = <<2, 4>>

C8_Witness ==
    /\ pc = "idle"
    /\ outcome = "ok"
    /\ b1 = ExampleSet
    /\ Len(written.data) = 5

C10_SolidStep ==
    (Done /\ surface_ids # <<>>) =>
        LET L == Len(entities)
            empty == b1.points = <<>>
            x0 == IF empty THEN 0 ELSE Min(Xs(b1))
            y0 == IF empty THEN 0 ELSE Min(Ys(b1))
            z0 == IF empty THEN 0 ELSE Min(Zs(b1))
            x1 == IF empty THEN 0 ELSE Max(Xs(b1))
            y1 == IF empty THEN 0 ELSE Max(Ys(b1))
            z1 == IF empty THEN 0 ELSE Max(Zs(b1))
            c(k) == entities[L - 9 + k]
        IN  /\ L = 9 + RecordsAfterLines(b1, Len(b1.lines)) + SurfaceRecords(b1)
            /\ IsPointAt(c(1), Point3D(x0, y0, z0))
            /\ IsPointAt(c(2), Point3D(x1, y0, z0))
            /\ IsPointAt(c(3), Point3D(x1, y1, z0))
            /\ IsPointAt(c(4), Point3D(x0, y1, z0))
            /\ IsPointAt(c(5), Point3D(x0, y0, z1))
            /\ IsPointAt(c(6), Point3D(x1, y0, z1))
            /\ IsPointAt(c(7), Point3D(x1, y1, z1))
            /\ IsPointAt(c(8), Point3D(x0, y1, z1))
            /\ entities[L].type = "BLOCK"
            /\ entities[L].refs = <<L - 8>>
            /\ entities[L].nums = <<x1 - x0, y1 - y0, z1 - z0>>
            /\ \A k \in 1..3 : entities[L].nums[k] >= 0
            /\ solid_id = L
            /\ empty => /\ \A k \in 1..8 : c(k).coords = <<0, 0, 0>>
                        /\ entities[L].nums = <<0, 0, 0>>

C10_Witness ==
    /\ pc = "idle"
    /\ outcome = "ok"
    /\ surface_ids # <<>>
    /\ Len(b1.points) = 2
    /\ entities[Len(entities)].type = "BLOCK"
    /\ \A k \in 1..3 : entities[Len(entities)].nums[k] > 0

\* the same with no Points: segments away from the origin, a block at it
C10_WitnessNoPoints ==
    /\ Done
    /\ surface_ids # <<>>
    /\ b1.points = <<>>
    /\ \E j \in DOMAIN b1.lines : b1.lines[j].start # Point3D(0, 0, 0)

\* ------------------------------------------------------------- loading
GenerationNotInvoked == pc = "idle" /\ outcome = "none"

\* the section a CSV row lies in: that of the last header above it
SectionOf(rows, k) ==
    LET hs == { h \in 1..(k - 1) : rows[h].kind \in {"POINTS", "LINES"} }
    IN  IF hs = {} THEN "none" ELSE rows[Max(hs)].kind

JsonEntryLacksKey(d) == ~(CoordKeys \subseteq DOMAIN d)

JsonLineLacksKey(d) ==
    \/ ~({"start", "end"} \subseteq DOMAIN d)
    \/ JsonEntryLacksKey(d.start)
    \/ JsonEntryLacksKey(d.end)

\* the inputs on which a statement of the loader raises
Raises(f) ==
    \/ /\ f.ext = "json"
       /\ \/ ~f.readable
          \/ ~f.json.syntax_ok
          \/ f.json.top = "number"
          \/ /\ f.json.top = "object"
             /\ f.json.has_points
             /\ \E k \in DOMAIN f.json.points : JsonEntryLacksKey(f.json.points[k])
          \/ /\ f.json.top = "object"
             /\ f.json.has_lines
             /\ \E k \in DOMAIN f.json.lines : JsonLineLacksKey(f.json.lines[k])
    \/ /\ f.ext = "csv"
       /\ \/ ~f.readable
          \/ \E k \in DOMAIN f.rows :
                /\ f.rows[k].kind = "data"
                /\ \/ /\ SectionOf(f.rows, k) = "POINTS"
                      /\ Len(f.rows[k].fields) >= 3
                      /\ \E c \in 1..3 : ~f.rows[k].fields[c].num
                   \/ /\ SectionOf(f.rows, k) = "LINES"
                      /\ Len(f.rows[k].fields) >= 6
                      /\ \E c \in 1..6 : ~f.rows[k].fields[c].num

\* a data row with fewer fields than its section needs
CsvRowLacksField(f) ==
    /\ f.ext = "csv"
    /\ \E k \in DOMAIN f.rows :
          /\ f.rows[k].kind = "data"
          /\ \/ SectionOf(f.rows, k) = "POINTS" /\ Len(f.rows[k].fields) < 3
             \/ SectionOf(f.rows, k) = "LINES" /\ Len(f.rows[k].fields) < 6

\* a JSON text whose top-level value is not an object
JsonNotAnObject(f) == f.ext = "json" /\ f.json.syntax_ok /\ f.json.top # "object"

C6_WitnessGenerated ==
    /\ mpc = "exit"
    /\ CsvRowLacksField(input)
    /\ loaded.ok
    /\ outcome = "ok"

====
